---- MODULE Spec2Model ----
(***************************************************************************)
(* A model of dashboard/main.py: the Cloud Function that ingests report    *)
(* CSV files from Drive into BigQuery.                                     *)
(*                                                                         *)
(* Strings of the program are modelled as sequences of one-character       *)
(* strings, so that the filename pattern, the timestamp format and         *)
(* _normalize are computed character by character as the code does.        *)
(***************************************************************************)
EXTENDS Integers, Sequences, FiniteSets, TLC

VARIABLES
  filename,           \* the argument of the last ReportName.with_filename call
  report_name,        \* its outcome: a ReportName, or the exception it raised
  stored_last_report, \* the warehouse at the start: the `last_report` rows, or NotFound
  drive_files,        \* the request's file_list: a sequence of [name, id]
  last_report_table,  \* the in-memory watermark DataFrame: a sequence of rows
  dataframes,         \* the defaultdict(list), in insertion order: <<[key, dfs]>>
  rule_map,           \* the dict returned by load_files_into_dataframes: <<[key, df]>>
  i,                  \* position of the `for file_obj in drive_files` loop
  j,                  \* position of the `for rule, df in dataframes.items()` loop
  pc,                 \* where the invocation stands
  stderr,             \* the diagnostic lines printed to sys.stderr
  stdout,             \* the progress lines printed to sys.stdout
  downloads,          \* the file ids requested with get_media, in order
  bq_log,             \* the completed warehouse load jobs, in order
  response,           \* the value import_dashboard returned, or None
  error               \* the exception that left import_dashboard, or None

vars == <<filename, report_name, stored_last_report, drive_files,
          last_report_table, dataframes, rule_map, i, j, pc, stderr,
          stdout, downloads, bq_log, response, error>>

None == "None"

-----------------------------------------------------------------------------
(* Bounds of the model.                                                    *)

\* longest text generated in front of the timestamp of a parsed filename
MaxHead == 9
\* longest file_list of a request
MaxFiles == 3

-----------------------------------------------------------------------------
(* Characters.                                                             *)

Digits == {"0", "1", "2", "3", "4", "5", "6", "7", "8", "9"}

DigitVal(c) ==
  CASE c = "0" -> 0 [] c = "1" -> 1 [] c = "2" -> 2 [] c = "3" -> 3
    [] c = "4" -> 4 [] c = "5" -> 5 [] c = "6" -> 6 [] c = "7" -> 7
    [] c = "8" -> 8 [] c = "9" -> 9

\* int() of a run of decimal digits
RECURSIVE IntOf(_)
IntOf(s) ==
  IF s = <<>> THEN 0
  ELSE 10 * IntOf(SubSeq(s, 1, Len(s) - 1)) + DigitVal(s[Len(s)])

AllDigits(s) == \A k \in 1..Len(s) : s[k] \in Digits

\* the regex `.` : any character except a newline
Dot(c) == c # "\n"

\* the regex class [^_]
NotUnderscore(c) == c # "_"

CSV == <<"c", "s", "v">>

-----------------------------------------------------------------------------
(* The timestamp: the `date` group of the pattern, and strptime.           *)

DateLen == 24

\* \d{4}\-\d{2}-\d{2}T\d{2}:\d{2}:\d{2}.\d{3}Z  (the `.` is unescaped)
DateShape(d) ==
  /\ Len(d) = DateLen
  /\ AllDigits(SubSeq(d, 1, 4))
  /\ d[5] = "-"
  /\ AllDigits(SubSeq(d, 6, 7))
  /\ d[8] = "-"
  /\ AllDigits(SubSeq(d, 9, 10))
  /\ d[11] = "T"
  /\ AllDigits(SubSeq(d, 12, 13))
  /\ d[14] = ":"
  /\ AllDigits(SubSeq(d, 15, 16))
  /\ d[17] = ":"
  /\ AllDigits(SubSeq(d, 18, 19))
  /\ Dot(d[20])
  /\ AllDigits(SubSeq(d, 21, 23))
  /\ d[24] = "Z"

IsLeap(y) == (y % 4 = 0) /\ ((y % 100 # 0) \/ (y % 400 = 0))

DaysInMonth(y, m) ==
  IF m = 2 THEN (IF IsLeap(y) THEN 29 ELSE 28)
  ELSE IF m \in {4, 6, 9, 11} THEN 30 ELSE 31

ValueError(msg) == [ok |-> FALSE, error |-> "ValueError", message |-> msg]

\* A strptime that reads the three digits of %f as microseconds, not as
\* the leading digits of the fraction of a second.
strptimeFractionAsMicroseconds(d) ==
  LET year   == IntOf(SubSeq(d, 1, 4))
      month  == IntOf(SubSeq(d, 6, 7))
      day    == IntOf(SubSeq(d, 9, 10))
      hour   == IntOf(SubSeq(d, 12, 13))
      minute == IntOf(SubSeq(d, 15, 16))
      second == IntOf(SubSeq(d, 18, 19))
      milli  == IntOf(SubSeq(d, 21, 23))
  IN  IF \/ month \notin 1..12
         \/ day \notin 1..31
         \/ hour \notin 0..23
         \/ minute \notin 0..59
         \/ second \notin 0..61
         \/ d[20] # "."
      THEN ValueError("time data does not match format")
      ELSE IF year = 0 THEN ValueError("year 0 is out of range")
      ELSE IF day > DaysInMonth(year, month)
      THEN ValueError("day is out of range for month")
      ELSE IF second > 59 THEN ValueError("second must be in 0..59")
      ELSE [ok |-> TRUE,
            value |-> [year |-> year, month |-> month, day |-> day,
                       hour |-> hour, minute |-> minute, second |-> second,
                       microsecond |-> milli, tz |-> "UTC"]]

\* datetime.datetime.strptime(d, '%Y-%m-%dT%H:%M:%S.%f%z') for a d of
\* DateShape: the directives' own ranges, the literal '.', then the
\* datetime constructor's range checks. %z reads 'Z' as UTC.
strptime(d) ==
  LET year   == IntOf(SubSeq(d, 1, 4))
      month  == IntOf(SubSeq(d, 6, 7))
      day    == IntOf(SubSeq(d, 9, 10))
      hour   == IntOf(SubSeq(d, 12, 13))
      minute == IntOf(SubSeq(d, 15, 16))
      second == IntOf(SubSeq(d, 18, 19))
      milli  == IntOf(SubSeq(d, 21, 23))
  IN  IF \/ month \notin 1..12
         \/ day \notin 1..31
         \/ hour \notin 0..23
         \/ minute \notin 0..59
         \/ second \notin 0..61
         \/ d[20] # "."
      THEN ValueError("time data does not match format")
      ELSE IF year = 0 THEN ValueError("year 0 is out of range")
      ELSE IF day > DaysInMonth(year, month)
      THEN ValueError("day is out of range for month")
      ELSE IF second > 59 THEN ValueError("second must be in 0..59")
      ELSE [ok |-> TRUE,
            value |-> [year |-> year, month |-> month, day |-> day,
                       hour |-> hour, minute |-> minute, second |-> second,
                       microsecond |-> 1000 * milli, tz |-> "UTC"]]

-----------------------------------------------------------------------------
(* ReportName.with_filename.                                               *)

\* what follows the date group: `.csv`, the `.` unescaped
SuffixLen == 4

Suffix(s) == Len(s) = SuffixLen /\ Dot(s[1]) /\ SubSeq(s, 2, 4) = CSV

\* re.match: the pattern may stop before the end of the string
EndOfMatchAnywhere(f, p) == p <= Len(f)

\* re.fullmatch: the pattern must end at the end of the string
EndOfMatch(f, p) == p = Len(f)

UnderscoresAfter(f, p) == {k \in (p + 1)..Len(f) : f[k] = "_"}

\* Every way the pattern matches f, as the positions of the four `\_`.
Matches(f) ==
  UNION {
    UNION {
      UNION {
        { <<u1, u2, u3, u4>> : u4 \in
            {u \in UnderscoresAfter(f, u3 + 1) :
               /\ \A k \in (u3 + 1)..(u - 1) : Dot(f[k])
               /\ u + DateLen + SuffixLen <= Len(f)
               /\ DateShape(SubSeq(f, u + 1, u + DateLen))
               /\ Suffix(SubSeq(f, u + DateLen + 1, u + DateLen + SuffixLen))
               /\ EndOfMatch(f, u + DateLen + SuffixLen)} }
        : u3 \in {u \in UnderscoresAfter(f, u2 + 1) :
                    \A k \in (u2 + 1)..(u - 1) : NotUnderscore(f[k])} }
      : u2 \in {u \in UnderscoresAfter(f, u1) :
                  \A k \in (u1 + 1)..(u - 1) : NotUnderscore(f[k])} }
    : u1 \in {u \in UnderscoresAfter(f, 1) :
                \A k \in 1..(u - 1) : NotUnderscore(f[k])} }

\* The match the backtracking engine reports: the greedy groups as long as
\* they can be, the lazy `sheet_id` (.+?) as short as it can be.
FirstMatch(f) ==
  CHOOSE m \in Matches(f) :
    \A n \in Matches(f) :
      \/ m[1] > n[1]
      \/ m[1] = n[1] /\ m[2] > n[2]
      \/ m[1] = n[1] /\ m[2] = n[2] /\ m[3] > n[3]
      \/ m[1] = n[1] /\ m[2] = n[2] /\ m[3] = n[3] /\ m[4] <= n[4]

with_filename(f) ==
  IF Matches(f) = {} THEN ValueError("Invalid filename")
  ELSE LET m == FirstMatch(f)
           date == strptime(SubSeq(f, m[4] + 1, m[4] + DateLen))
       IN  IF ~date.ok THEN date
           ELSE [ok       |-> TRUE,
                 filename |-> f,
                 category |-> SubSeq(f, 1, m[1] - 1),
                 label    |-> SubSeq(f, m[1] + 1, m[2] - 1),
                 rule     |-> SubSeq(f, m[2] + 1, m[3] - 1),
                 sheet_id |-> SubSeq(f, m[3] + 1, m[4] - 1),
                 date     |-> date.value]

-----------------------------------------------------------------------------
(* Text used by the program and by the inputs of the model.                *)

\* _LAST_REPORT_ID, and the table_id of the final load
LAST_REPORT_ID == <<"l", "a", "s", "t", "_", "r", "e", "p", "o", "r", "t">>

COL_DATE == <<"D", "a", "t", "e">>
COL_SHEET_ID == <<"S", "h", "e", "e", "t", "_", "I", "D">>
COL_LABEL == <<"L", "a", "b", "e", "l">>
COL_CATEGORY == <<"C", "a", "t", "e", "g", "o", "r", "y">>

\* a timestamp text put together from its parts
Stamp(y, mo, d, h, mi, s, sep, ms) ==
  y \o <<"-">> \o mo \o <<"-">> \o d \o <<"T">> \o h \o <<":">> \o mi
    \o <<":">> \o s \o <<sep>> \o ms \o <<"Z">>

D00 == <<"0", "0">>
D01 == <<"0", "1">>
D02 == <<"0", "2">>
D13 == <<"1", "3">>
D29 == <<"2", "9">>
D60 == <<"6", "0">>
D000 == <<"0", "0", "0">>
Y2020 == <<"2", "0", "2", "0">>
Y2021 == <<"2", "0", "2", "1">>

\* 2020-01-01T00:00:00.000Z and 2020-01-02T00:00:00.000Z
T_OLD == Stamp(Y2020, D01, D01, D00, D00, D00, ".", D000)
T_NEW == Stamp(Y2020, D01, D02, D00, D00, D00, ".", D000)
\* 2020-13-01T00:00:00.000Z: the shape of a timestamp, no real month
T_MONTH13 == Stamp(Y2020, D13, D01, D00, D00, D00, ".", D000)

DOT_CSV == <<".">> \o CSV
X_CSV == <<"x">> \o CSV

-----------------------------------------------------------------------------
(* DataFrames: [columns |-> the column names, rows |-> the rows, each a    *)
(* sequence of values aligned with columns].                               *)

NaN == "NaN"

RECURSIVE ReplaceSpaces(_)
ReplaceSpaces(s) ==
  IF s = <<>> THEN <<>>
  ELSE <<IF Head(s) = " " THEN "_" ELSE Head(s)>> \o ReplaceSpaces(Tail(s))

RemovePeriods(s) == SelectSeq(s, LAMBDA c : c # ".")

\* string.replace(' ', '_').replace('.', '')
_normalize(string) == RemovePeriods(ReplaceSpaces(string))

Repeat(x, n) == [k \in 1..n |-> x]

\* The columns are joined on the index; both frames carry the RangeIndex
\* 0..len(df)-1, so row k of the one meets row k of the other. (The files
\* of the model have no column named Date: the join would raise on it.)
fill_dataframe(df, rn) ==
  LET dfl == Len(df.rows)
      date == Repeat(rn.date, dfl)
      joined == [columns |-> <<COL_DATE>> \o df.columns,
                 rows |-> [k \in 1..dfl |-> <<date[k]>> \o df.rows[k]]]
  IN  [columns |-> [c \in 1..Len(joined.columns) |->
                      _normalize(joined.columns[c])],
       rows |-> joined.rows]

Position(seq, x) == CHOOSE k \in 1..Len(seq) : seq[k] = x

Contains(seq, x) == \E k \in 1..Len(seq) : seq[k] = x

\* the columns of a after those of b that a does not have, in b's order
UnionColumns(a, b) == a \o SelectSeq(b, LAMBDA c : ~Contains(a, c))

RECURSIVE AllColumns(_)
AllColumns(dfs) ==
  IF dfs = <<>> THEN <<>>
  ELSE UnionColumns(Head(dfs).columns, AllColumns(Tail(dfs)))

Reindex(df, columns) ==
  [k \in 1..Len(df.rows) |->
     [c \in 1..Len(columns) |->
        IF Contains(df.columns, columns[c])
        THEN df.rows[k][Position(df.columns, columns[c])]
        ELSE NaN]]

RECURSIVE ConcatRows(_, _)
ConcatRows(dfs, columns) ==
  IF dfs = <<>> THEN <<>>
  ELSE Reindex(Head(dfs), columns) \o ConcatRows(Tail(dfs), columns)

\* pd.concat(v): the frames' rows one after the other, over the union of
\* their columns in order of first appearance
pd_concat(dfs) ==
  [columns |-> AllColumns(dfs), rows |-> ConcatRows(dfs, AllColumns(dfs))]

-----------------------------------------------------------------------------
(* The watermark table: rows [Sheet_ID, Label, Date], Sheet_ID the index.  *)

DateKey(d) ==
  <<d.year, d.month, d.day, d.hour, d.minute, d.second, d.microsecond>>

RECURSIVE LexLess(_, _)
LexLess(a, b) ==
  IF a = <<>> THEN FALSE
  ELSE IF Head(a) # Head(b) THEN Head(a) < Head(b)
  ELSE LexLess(Tail(a), Tail(b))

\* date a is earlier than date b
DateBefore(a, b) == LexLess(DateKey(a), DateKey(b))

\* An upsert that compares timestamps: the row is kept when it is newer.
SetLocIfNewer(tbl, sheet_id, label, date) ==
  IF \E k \in 1..Len(tbl) : tbl[k].Sheet_ID = sheet_id
  THEN [k \in 1..Len(tbl) |->
          IF tbl[k].Sheet_ID = sheet_id /\ DateBefore(tbl[k].Date, date)
          THEN [Sheet_ID |-> sheet_id, Label |-> label, Date |-> date]
          ELSE tbl[k]]
  ELSE Append(tbl, [Sheet_ID |-> sheet_id, Label |-> label, Date |-> date])

\* last_report_table.loc[sheet_id] = [label, date]: every row of that index
\* label is set; a label the index does not have yet is appended
SetLoc(tbl, sheet_id, label, date) ==
  IF \E k \in 1..Len(tbl) : tbl[k].Sheet_ID = sheet_id
  THEN [k \in 1..Len(tbl) |->
          IF tbl[k].Sheet_ID = sheet_id
          THEN [Sheet_ID |-> sheet_id, Label |-> label, Date |-> date]
          ELSE tbl[k]]
  ELSE Append(tbl, [Sheet_ID |-> sheet_id, Label |-> label, Date |-> date])

-----------------------------------------------------------------------------
(* The inputs of the model: the files of the Drive folder and what the     *)
(* warehouse holds before the invocation.                                  *)

FileName(head, stamp, suffix) == head \o stamp \o suffix

FileObjs == {
  \* a_x_r_s_<new>.csv
  [id |-> "f1", name |-> FileName(<<"a", "_", "x", "_", "r", "_", "s", "_">>, T_NEW, DOT_CSV)],
  \* a_y_r_s_<old>.csv : the sheet of f1, another label, an older timestamp
  [id |-> "f2", name |-> FileName(<<"a", "_", "y", "_", "r", "_", "s", "_">>, T_OLD, DOT_CSV)],
  \* a__q_s_t_<new>.csv : no label, an underscore in the sheet id
  [id |-> "f3", name |-> FileName(<<"a", "_", "_", "q", "_", "s", "_", "t", "_">>, T_NEW, DOT_CSV)],
  \* a_x_last report_u_<old>.csv : a space in the rule
  [id |-> "f4", name |-> FileName(<<"a", "_", "x", "_", "l", "a", "s", "t", " ", "r", "e", "p", "o", "r", "t", "_", "u", "_">>, T_OLD, DOT_CSV)],
  \* a_x_r._s_<old>.csv : a period in the rule
  [id |-> "f5", name |-> FileName(<<"a", "_", "x", "_", "r", ".", "_", "s", "_">>, T_OLD, DOT_CSV)],
  \* abc.csv
  [id |-> "f6", name |-> <<"a", "b", "c", ".", "c", "s", "v">>],
  \* a_x_r_s_2020-13-01T00:00:00.000Z.csv
  [id |-> "f7", name |-> FileName(<<"a", "_", "x", "_", "r", "_", "s", "_">>, T_MONTH13, DOT_CSV)],
  \* a_x_r_v_<new>xcsv
  [id |-> "f8", name |-> FileName(<<"a", "_", "x", "_", "r", "_", "v", "_">>, T_NEW, X_CSV)] }

COL_AB == <<"A", " ", "B">>
COL_CD == <<"C", ".", "D">>

\* the CSV behind each file id, as pd.read_csv(file, dtype='string') reads
\* it (none has a column named anomalous)
Content(id) ==
  CASE id = "f1" -> [columns |-> <<COL_AB, COL_CD>>, rows |-> << <<"a1", "c1">> >>]
    [] id = "f2" -> [columns |-> <<COL_AB, COL_CD>>,
                     rows |-> << <<"a2", "c2">>, <<"a3", "c3">> >>]
    [] id = "f3" -> [columns |-> <<COL_AB, COL_CD>>, rows |-> << >>]
    [] id = "f8" -> [columns |-> <<COL_AB>>, rows |-> << <<"a8">> >>]
    [] OTHER -> [columns |-> <<COL_AB, COL_CD>>, rows |-> << <<id, id>> >>]

NotFound == "NotFound"

\* the rows the `last_report` table may hold before the invocation: none of
\* its Sheet_IDs is repeated, as the program itself leaves it
StoredTables == {
  NotFound,
  << [Sheet_ID |-> <<"z">>, Label |-> <<"w">>, Date |-> strptime(T_OLD).value],
     [Sheet_ID |-> <<"s">>, Label |-> <<"w">>, Date |-> strptime(T_NEW).value] >> }

\* report_name = ReportName.with_filename(file_obj['name']), or the
\* ValueError it raises, for each file of the folder
ReportNameOf == [f \in FileObjs |-> with_filename(f.name)]

Batches == UNION {[1..n -> FileObjs] : n \in 0..MaxFiles}

-----------------------------------------------------------------------------
(* import_dashboard, step by step.                                         *)

Init ==
  /\ drive_files \in Batches
  /\ stored_last_report \in StoredTables
  /\ filename = None
  /\ report_name = None
  /\ last_report_table = <<>>
  /\ dataframes = <<>>
  /\ rule_map = <<>>
  /\ i = 1
  /\ j = 1
  /\ pc = "start"
  /\ stderr = <<>>
  /\ stdout = <<>>
  /\ downloads = <<>>
  /\ bq_log = <<>>
  /\ response = None
  /\ error = None

\* The invocation starts from an empty table whatever the warehouse holds.
StartFromEmptyTable ==
  /\ pc = "start"
  /\ last_report_table' = <<>>
  /\ pc' = "files"
  /\ UNCHANGED <<filename, report_name, stored_last_report, drive_files,
                 dataframes, rule_map, i, j, stderr, stdout, downloads,
                 bq_log, response, error>>

\* The query finds the table, or NotFound is caught and an empty table is
\* made; set_index('Sheet_ID').
_get_or_create_last_report_table ==
  /\ pc = "start"
  /\ last_report_table' =
       IF stored_last_report = NotFound THEN <<>> ELSE stored_last_report
  /\ pc' = "files"
  /\ UNCHANGED <<filename, report_name, stored_last_report, drive_files,
                 dataframes, rule_map, i, j, stderr, stdout, downloads,
                 bq_log, response, error>>

InvalidLine(name) == <<"File '", name, "' name is invalid. Skipping.">>

\* One turn of the loop for a name with_filename raises ValueError on, with
\* the `continue` missing: the file is reported and then treated as a report.
SkipInvalidFileNoContinue ==
  /\ pc = "files"
  /\ i <= Len(drive_files)
  /\ ~ReportNameOf[drive_files[i]].ok
  /\ filename' = drive_files[i].name
  /\ report_name' = ReportNameOf[drive_files[i]]
  /\ stderr' = Append(stderr, InvalidLine(drive_files[i].name))
  /\ downloads' = Append(downloads, drive_files[i].id)
  /\ i' = i + 1
  /\ UNCHANGED <<stored_last_report, drive_files, last_report_table,
                 dataframes, rule_map, j, pc, stdout, bq_log, response, error>>

\* One turn of the loop for a name with_filename raises ValueError on.
SkipInvalidFile ==
  /\ pc = "files"
  /\ i <= Len(drive_files)
  /\ ~ReportNameOf[drive_files[i]].ok
  /\ filename' = drive_files[i].name
  /\ report_name' = ReportNameOf[drive_files[i]]
  /\ stderr' = Append(stderr, InvalidLine(drive_files[i].name))
  /\ i' = i + 1
  /\ UNCHANGED <<stored_last_report, drive_files, last_report_table,
                 dataframes, rule_map, j, pc, stdout, downloads, bq_log,
                 response, error>>

HasKey(d, key) == \E k \in 1..Len(d) : d[k].key = key

\* dataframes[rule] = [df]: the bucket is replaced
BucketReplace(d, rule, df) ==
  IF HasKey(d, rule)
  THEN [k \in 1..Len(d) |->
          IF d[k].key = rule THEN [key |-> rule, dfs |-> <<df>>] ELSE d[k]]
  ELSE Append(d, [key |-> rule, dfs |-> <<df>>])

\* dataframes[rule].append(df) on the defaultdict(list): a new key comes
\* last in the dict's order
BucketAppend(d, rule, df) ==
  IF HasKey(d, rule)
  THEN [k \in 1..Len(d) |->
          IF d[k].key = rule
          THEN [key |-> rule, dfs |-> Append(d[k].dfs, df)]
          ELSE d[k]]
  ELSE Append(d, [key |-> rule, dfs |-> <<df>>])

\* One turn of the loop for a valid name whose download and decode succeed.
ProcessFile ==
  /\ pc = "files"
  /\ i <= Len(drive_files)
  /\ ReportNameOf[drive_files[i]].ok
  /\ LET rn == ReportNameOf[drive_files[i]]
         df == Content(drive_files[i].id)
     IN  /\ filename' = drive_files[i].name
         /\ report_name' = rn
         /\ last_report_table' =
              SetLoc(last_report_table, rn.sheet_id, rn.label, rn.date)
         /\ downloads' = Append(downloads, drive_files[i].id)
         /\ dataframes' = BucketAppend(dataframes, rn.rule, fill_dataframe(df, rn))
  /\ i' = i + 1
  /\ UNCHANGED <<stored_last_report, drive_files, rule_map, j, pc, stderr,
                 stdout, bq_log, response, error>>

DownloadErrors == {"HttpError", "ParserError"}

\* A turn of the loop whose failed download is swallowed: the loop goes on.
ProcessFileFailsAndGoesOn ==
  /\ pc = "files"
  /\ i <= Len(drive_files)
  /\ ReportNameOf[drive_files[i]].ok
  /\ LET rn == ReportNameOf[drive_files[i]]
     IN  /\ filename' = drive_files[i].name
         /\ report_name' = rn
         /\ last_report_table' =
              SetLoc(last_report_table, rn.sheet_id, rn.label, rn.date)
         /\ downloads' = Append(downloads, drive_files[i].id)
  /\ \E e \in DownloadErrors : error' = e
  /\ i' = i + 1
  /\ UNCHANGED <<stored_last_report, drive_files, dataframes, rule_map, j, pc,
                 stderr, stdout, bq_log, response>>

\* One turn of the loop for a valid name whose download (next_chunk) or
\* decode (pd.read_csv) raises: nothing catches it, the invocation ends.
ProcessFileFails ==
  /\ pc = "files"
  /\ i <= Len(drive_files)
  /\ ReportNameOf[drive_files[i]].ok
  /\ LET rn == ReportNameOf[drive_files[i]]
     IN  /\ filename' = drive_files[i].name
         /\ report_name' = rn
         /\ last_report_table' =
              SetLoc(last_report_table, rn.sheet_id, rn.label, rn.date)
         /\ downloads' = Append(downloads, drive_files[i].id)
  /\ \E e \in DownloadErrors : error' = e
  /\ pc' = "failed"
  /\ UNCHANGED <<stored_last_report, drive_files, dataframes, rule_map, i, j,
                 stderr, stdout, bq_log, response>>

\* The loop is over: {k: pd.concat(v) for k, v in dataframes.items()}.
ReturnDataframes ==
  /\ pc = "files"
  /\ i > Len(drive_files)
  /\ rule_map' = [k \in 1..Len(dataframes) |->
                    [key |-> dataframes[k].key, df |-> pd_concat(dataframes[k].dfs)]]
  /\ j' = 1
  /\ pc' = "load"
  /\ UNCHANGED <<filename, report_name, stored_last_report, drive_files,
                 last_report_table, dataframes, i, stderr, stdout, downloads,
                 bq_log, response, error>>

\* A load job without a job_config appends (the service's default).
LoadJob(table_id, write_disposition, data) ==
  [table_id |-> table_id, write_disposition |-> write_disposition, data |-> data]

\* One turn of the loop of load_data_into_bigquery: the rule's load job
\* completes.
LoadRule ==
  /\ pc = "load"
  /\ j <= Len(rule_map)
  /\ bq_log' = Append(bq_log, LoadJob(_normalize(rule_map[j].key),
                                      "WRITE_APPEND", rule_map[j].df))
  /\ stdout' = Append(stdout, <<"Completed ", rule_map[j].key, " ingestion">>)
  /\ j' = j + 1
  /\ UNCHANGED <<filename, report_name, stored_last_report, drive_files,
                 last_report_table, dataframes, rule_map, i, pc, stderr,
                 downloads, response, error>>

\* The rule's load job raises: nothing catches it.
LoadRuleFails ==
  /\ pc = "load"
  /\ j <= Len(rule_map)
  /\ error' = "LoadError"
  /\ pc' = "failed"
  /\ UNCHANGED <<filename, report_name, stored_last_report, drive_files,
                 last_report_table, dataframes, rule_map, i, j, stderr, stdout,
                 downloads, bq_log, response>>

\* The watermark is saved whatever the position of the rule loop, and
\* appended to its table.
SaveLastReportEarly ==
  /\ pc = "load"
  /\ bq_log' = Append(bq_log, LoadJob(LAST_REPORT_ID, "WRITE_APPEND",
                                      last_report_table))
  /\ stdout' = Append(stdout, <<"Saved updated dates to last_report">>)
  /\ pc' = IF j > Len(rule_map) THEN "loaded" ELSE pc
  /\ UNCHANGED <<filename, report_name, stored_last_report, drive_files,
                 last_report_table, dataframes, rule_map, i, j, stderr,
                 downloads, response, error>>

\* After the rule loop: the WRITE_TRUNCATE load of `last_report` completes.
SaveLastReport ==
  /\ pc = "load"
  /\ j > Len(rule_map)
  /\ bq_log' = Append(bq_log, LoadJob(LAST_REPORT_ID, "WRITE_TRUNCATE",
                                      last_report_table))
  /\ stdout' = Append(stdout, <<"Saved updated dates to last_report">>)
  /\ pc' = "loaded"
  /\ UNCHANGED <<filename, report_name, stored_last_report, drive_files,
                 last_report_table, dataframes, rule_map, i, j, stderr,
                 downloads, response, error>>

\* The load of `last_report` raises.
SaveLastReportFails ==
  /\ pc = "load"
  /\ j > Len(rule_map)
  /\ error' = "LoadError"
  /\ pc' = "failed"
  /\ UNCHANGED <<filename, report_name, stored_last_report, drive_files,
                 last_report_table, dataframes, rule_map, i, j, stderr, stdout,
                 downloads, bq_log, response>>

\* return {'tables': list(dataframes.keys())}
Respond ==
  /\ pc = "loaded"
  /\ response' = [tables |-> [k \in 1..Len(rule_map) |-> rule_map[k].key]]
  /\ pc' = "done"
  /\ UNCHANGED <<filename, report_name, stored_last_report, drive_files,
                 last_report_table, dataframes, rule_map, i, j, stderr, stdout,
                 downloads, bq_log, error>>

Next ==
  \/ _get_or_create_last_report_table
  \/ SkipInvalidFile
  \/ ProcessFile
  \/ ProcessFileFails
  \/ ReturnDataframes
  \/ LoadRule
  \/ LoadRuleFails
  \/ SaveLastReport
  \/ SaveLastReportFails
  \/ Respond

Spec == Init /\ [][Next]_vars

-----------------------------------------------------------------------------
(* ReportName.with_filename on its own, over generated filenames.          *)

HeadAlphabet == {"a", "_"}

Heads == UNION {[1..n -> HeadAlphabet] : n \in 0..MaxHead}

\* what may stand between the head and the final timestamp: nothing, or a
\* whole timestamp and suffix that then belong to the sheet id
Mids == {<<>>, T_OLD \o DOT_CSV \o <<"_">>}

Stamps == {
  T_OLD,
  \* 2020-01-01T00:00:00.123Z
  Stamp(Y2020, D01, D01, D00, D00, D00, ".", <<"1", "2", "3">>),
  T_MONTH13,
  \* 2020-02-29 is a day, 2021-02-29 is none
  Stamp(Y2020, D02, D29, D00, D00, D00, ".", D000),
  Stamp(Y2021, D02, D29, D00, D00, D00, ".", D000),
  \* second 60
  Stamp(Y2020, D01, D01, D00, D00, D60, ".", D000),
  \* another character than a period before the milliseconds
  Stamp(Y2020, D01, D01, D00, D00, D00, "x", D000),
  \* not the shape of a timestamp: no seconds' digits
  Stamp(Y2020, D01, D01, D00, D00, <<"s", "s">>, ".", D000) }

Suffixes == {DOT_CSV, X_CSV, CSV, <<>>, DOT_CSV \o <<"a">>, <<".", "t", "x", "t">>}

Filenames ==
  {h \o m \o s \o x : h \in Heads, m \in Mids, s \in Stamps, x \in Suffixes}

InitParse ==
  /\ filename \in Filenames
  /\ report_name = None
  /\ pc = "parse"
  /\ stored_last_report = NotFound
  /\ drive_files = <<>>
  /\ last_report_table = <<>>
  /\ dataframes = <<>>
  /\ rule_map = <<>>
  /\ i = 1
  /\ j = 1
  /\ stderr = <<>>
  /\ stdout = <<>>
  /\ downloads = <<>>
  /\ bq_log = <<>>
  /\ response = None
  /\ error = None

Parse ==
  /\ pc = "parse"
  /\ report_name' = with_filename(filename)
  /\ pc' = "parsed"
  /\ UNCHANGED <<filename, stored_last_report, drive_files, last_report_table,
                 dataframes, rule_map, i, j, stderr, stdout, downloads, bq_log,
                 response, error>>

NextParse == Parse

SpecParse == InitParse /\ [][NextParse]_vars

-----------------------------------------------------------------------------
(* Vocabulary of the properties.                                           *)

\* load_files_into_dataframes has returned its two values
Returned ==
  \/ pc \in {"load", "loaded", "done"}
  \/ pc = "failed" /\ error = "LoadError"

Valid(k) == ReportNameOf[drive_files[k]].ok

ValidIdx == {k \in 1..Len(drive_files) : Valid(k)}

RN(k) == ReportNameOf[drive_files[k]]

RowsWithSheet(sheet_id) ==
  {r \in 1..Len(last_report_table) : last_report_table[r].Sheet_ID = sheet_id}

\* the batch without the files whose names are rejected
ValidFiles == SelectSeq(drive_files, LAMBDA f : ReportNameOf[f].ok)

-----------------------------------------------------------------------------
(* C1 *)

\* C1: once load_files_into_dataframes has returned, the watermark table
\* has exactly one row for every sheet_id of a validly named file, and that
\* row carries the label and date of the last such file of the list,
\* whichever file's timestamp is the later one.
C1_LastListedFileWins ==
  Returned =>
    \A k \in ValidIdx :
      (\A n \in ValidIdx : n > k => RN(n).sheet_id # RN(k).sheet_id) =>
        /\ Cardinality(RowsWithSheet(RN(k).sheet_id)) = 1
        /\ \A r \in RowsWithSheet(RN(k).sheet_id) :
             /\ last_report_table[r].Label = RN(k).label
             /\ last_report_table[r].Date = RN(k).date

\* a sheet's older file is listed after its newer file, and the table
\* returned holds the older date
C1_Witness ==
  /\ Returned
  /\ \E k, n \in ValidIdx :
       /\ k < n
       /\ RN(k).sheet_id = RN(n).sheet_id
       /\ DateBefore(RN(n).date, RN(k).date)
       /\ \A m \in ValidIdx : m > n => RN(m).sheet_id # RN(n).sheet_id
       /\ \E r \in RowsWithSheet(RN(n).sheet_id) :
            last_report_table[r].Date = RN(n).date

-----------------------------------------------------------------------------
(* C2 *)

RECURSIVE TableAfter(_, _)
TableAfter(tbl, files) ==
  IF files = <<>> THEN tbl
  ELSE LET rn == ReportNameOf[Head(files)]
       IN  TableAfter(SetLoc(tbl, rn.sheet_id, rn.label, rn.date), Tail(files))

RECURSIVE BucketsAfter(_, _)
BucketsAfter(d, files) ==
  IF files = <<>> THEN d
  ELSE LET rn == ReportNameOf[Head(files)]
       IN  BucketsAfter(
             BucketAppend(d, rn.rule, fill_dataframe(Content(Head(files).id), rn)),
             Tail(files))

LoadedTable == IF stored_last_report = NotFound THEN <<>> ELSE stored_last_report

\* C2: once load_files_into_dataframes has returned, only the validly named
\* files were downloaded, stderr holds one line per rejected file, naming
\* it, in list order, and the watermark table and the rule buckets are those
\* of the batch with the rejected files taken out.
C2_InvalidFilesAreSkipped ==
  Returned =>
    /\ downloads = [k \in 1..Len(ValidFiles) |-> ValidFiles[k].id]
    /\ stderr =
         LET bad == SelectSeq(drive_files, LAMBDA f : ~ReportNameOf[f].ok)
         IN  [k \in 1..Len(bad) |-> InvalidLine(bad[k].name)]
    /\ last_report_table = TableAfter(LoadedTable, ValidFiles)
    /\ dataframes = BucketsAfter(<<>>, ValidFiles)

\* a rejected file stands between two valid files of a batch that returned
C2_Witness ==
  /\ Returned
  /\ \E k, m, n \in 1..Len(drive_files) :
       k < m /\ m < n /\ Valid(k) /\ ~Valid(m) /\ Valid(n)

-----------------------------------------------------------------------------
(* C3 *)

\* C3: when a download or decode has failed, the invocation has ended with
\* that error, no load job was run and no response was returned.
C3_DownloadFailureWritesNothing ==
  error \in DownloadErrors =>
    /\ pc = "failed"
    /\ bq_log = <<>>
    /\ response = None

\* the failure is that of a file after the first, with rows already
\* aggregated
C3_Witness ==
  /\ error \in DownloadErrors
  /\ Len(downloads) > 1
  /\ dataframes # <<>>

-----------------------------------------------------------------------------
(* C4 *)

RuleLoad(k) == LoadJob(_normalize(rule_map[k].key), "WRITE_APPEND", rule_map[k].df)

\* C4: the load jobs completed so far are the rules' appends in the order
\* of the rule map; the WRITE_TRUNCATE load of last_report comes after all
\* of them, once, as the last job of an invocation that succeeds, and is
\* absent from an invocation that failed.
C4_RuleLoadsThenOneOverwrite ==
  IF pc \in {"loaded", "done"}
  THEN /\ Len(bq_log) = Len(rule_map) + 1
       /\ \A k \in 1..Len(rule_map) : bq_log[k] = RuleLoad(k)
       /\ bq_log[Len(bq_log)] =
            LoadJob(LAST_REPORT_ID, "WRITE_TRUNCATE", last_report_table)
  ELSE /\ Len(bq_log) <= Len(rule_map)
       /\ \A k \in 1..Len(bq_log) : bq_log[k] = RuleLoad(k)

\* an invocation that loaded two rules and then overwrote last_report
C4_Witness ==
  /\ pc = "done"
  /\ Len(rule_map) >= 2
  /\ bq_log[3].write_disposition = "WRITE_TRUNCATE"

-----------------------------------------------------------------------------
(* C5 *)

\* C5: the response lists, in the order of the rule map, the normalized
\* name of every rule, that is the table ids of the rules' load jobs.
C5_ResponseListsNormalizedNames ==
  pc = "done" =>
    /\ Len(response.tables) = Len(rule_map)
    /\ \A k \in 1..Len(rule_map) :
         /\ response.tables[k] = _normalize(rule_map[k].key)
         /\ response.tables[k] = bq_log[k].table_id

-----------------------------------------------------------------------------
(* C6 *)

\* the dataset the claim describes for a file and its ReportName
TaggedAsClaimed(df, rn, include_category) ==
  LET names == IF include_category
               THEN <<COL_DATE, COL_CATEGORY, COL_SHEET_ID, COL_LABEL>>
               ELSE <<COL_DATE, COL_SHEET_ID, COL_LABEL>>
      values == IF include_category
                THEN <<rn.date, rn.category, rn.sheet_id, rn.label>>
                ELSE <<rn.date, rn.sheet_id, rn.label>>
  IN  [columns |-> names \o [c \in 1..Len(df.columns) |-> _normalize(df.columns[c])],
       rows |-> [k \in 1..Len(df.rows) |-> values \o df.rows[k]]]

\* C6: every dataset fill_dataframe has put in a rule bucket is the file's
\* dataset behind the columns Date, (Category,) Sheet_ID and Label, each
\* holding the ReportName's value in every row.
C6_FillDataframeLeadingColumns ==
  \A b \in 1..Len(dataframes) :
    \A d \in 1..Len(dataframes[b].dfs) :
      \E k \in 1..(i - 1) :
        /\ Valid(k)
        /\ RN(k).rule = dataframes[b].key
        /\ \E include_category \in BOOLEAN :
             dataframes[b].dfs[d] =
               TaggedAsClaimed(Content(drive_files[k].id), RN(k), include_category)

-----------------------------------------------------------------------------
(* C7, C8, C9: ReportName.with_filename                                    *)

Parsed == pc = "parsed"

Accepted == Parsed /\ report_name.ok

Rejected == Parsed /\ ~report_name.ok

\* the text of f from position a to position b
Text(f, a, b) == SubSeq(f, a, b)

\* the position of the n-th underscore of f, 0 when f has fewer
NthUnderscore(f, n) ==
  LET at == {k \in 1..Len(f) :
               f[k] = "_" /\ Cardinality({m \in 1..k : f[m] = "_"}) = n}
  IN  IF at = {} THEN 0 ELSE CHOOSE k \in at : TRUE

\* the position of the underscore in front of the final timestamp
LastDelimiter(f) == Len(f) - SuffixLen - DateLen

\* YYYY-MM-DDTHH:MM:SS.mmmZ, digits and punctuation
TimestampForm(d) ==
  /\ Len(d) = DateLen
  /\ \A k \in 1..DateLen :
       IF k \in {5, 8} THEN d[k] = "-"
       ELSE IF k = 11 THEN d[k] = "T"
       ELSE IF k \in {14, 17} THEN d[k] = ":"
       ELSE IF k = 20 THEN d[k] = "."
       ELSE IF k = 24 THEN d[k] = "Z"
       ELSE d[k] \in Digits

\* category_label_rule_sheet_id_<timestamp>.csv and nothing else
NamedAsDocumented(f) ==
  LET u1 == NthUnderscore(f, 1)
      u2 == NthUnderscore(f, 2)
      u3 == NthUnderscore(f, 3)
      u4 == LastDelimiter(f)
  IN  /\ u1 > 1
      /\ u3 > u2 + 1
      /\ u4 > u3 + 1
      /\ f[u4] = "_"
      /\ TimestampForm(Text(f, u4 + 1, u4 + DateLen))
      /\ Text(f, u4 + DateLen + 1, Len(f)) = DOT_CSV

\* C7: a filename with_filename accepts is, in full, the four fields, the
\* timestamp and the four characters `.csv`.
C7_AcceptedNamesEndInDotCsv == Accepted => NamedAsDocumented(filename)

\* C8: a filename with_filename rejects is rejected with
\* ValueError('Invalid filename'), whatever is wrong with it.
C8_OneErrorForEveryRejection ==
  Rejected => report_name = ValueError("Invalid filename")

\* C9: for an accepted filename the pattern matches in one way only;
\* category, label and rule are the texts cut by the first three
\* underscores, and sheet_id is all the text from the third underscore to
\* the underscore in front of the final timestamp.
C9_FieldsAreCutAtTheUnderscores ==
  Accepted =>
    LET u1 == NthUnderscore(filename, 1)
        u2 == NthUnderscore(filename, 2)
        u3 == NthUnderscore(filename, 3)
        u4 == LastDelimiter(filename)
    IN  /\ Cardinality(Matches(filename)) = 1
        /\ report_name.category = Text(filename, 1, u1 - 1)
        /\ report_name.label = Text(filename, u1 + 1, u2 - 1)
        /\ report_name.rule = Text(filename, u2 + 1, u3 - 1)
        /\ report_name.sheet_id = Text(filename, u3 + 1, u4 - 1)
        /\ filename[u4] = "_"

\* an accepted name with no label whose sheet id holds underscores and a
\* whole timestamp of its own
C9_Witness ==
  /\ Accepted
  /\ report_name.label = <<>>
  /\ \E k \in 1..Len(report_name.sheet_id) : report_name.sheet_id[k] = "_"
  /\ Len(report_name.sheet_id) > DateLen + SuffixLen

-----------------------------------------------------------------------------
(* C10 *)

FilesOfRule(rule) == SelectSeq(ValidFiles, LAMBDA f : ReportNameOf[f].rule = rule)

RECURSIVE RowCount(_)
RowCount(files) ==
  IF files = <<>> THEN 0
  ELSE Len(Content(Head(files).id).rows) + RowCount(Tail(files))

Tagged(files) ==
  [k \in 1..Len(files) |-> fill_dataframe(Content(files[k].id), ReportNameOf[files[k]])]

\* C10: the keys of the rule map returned are the rules of the validly named
\* files, each once; a key's dataset holds the tagged rows of that rule's
\* files, file after file in list order, as many rows as the files have.
C10_RuleMapIsTheGroupBy ==
  Returned =>
    /\ {rule_map[k].key : k \in 1..Len(rule_map)} =
         {ReportNameOf[ValidFiles[k]].rule : k \in 1..Len(ValidFiles)}
    /\ \A k, n \in 1..Len(rule_map) : rule_map[k].key = rule_map[n].key => k = n
    /\ \A k \in 1..Len(rule_map) :
         LET files == FilesOfRule(rule_map[k].key)
             df == rule_map[k].df
         IN  /\ Len(df.rows) = RowCount(files)
             /\ df.rows = ConcatRows(Tagged(files), df.columns)
             /\ \A c \in 1..Len(df.columns) :
                  \E t \in 1..Len(files) : Contains(Tagged(files)[t].columns, df.columns[c])

\* a rule map returned for a batch that lists one file with rows twice,
\* next to a rejected file
C10_Witness ==
  /\ Returned
  /\ \E k, n \in ValidIdx :
       /\ k < n
       /\ drive_files[k] = drive_files[n]
       /\ Content(drive_files[k].id).rows # <<>>
  /\ \E m \in 1..Len(drive_files) : ~Valid(m)

-----------------------------------------------------------------------------
(* C11 *)

DigitChar(n) ==
  CASE n = 0 -> "0" [] n = 1 -> "1" [] n = 2 -> "2" [] n = 3 -> "3"
    [] n = 4 -> "4" [] n = 5 -> "5" [] n = 6 -> "6" [] n = 7 -> "7"
    [] n = 8 -> "8" [] n = 9 -> "9"

\* n in decimal, in `width` digits with leading zeros
RECURSIVE Padded(_, _)
Padded(n, width) ==
  IF width = 0 THEN <<>>
  ELSE Padded(n \div 10, width - 1) \o <<DigitChar(n % 10)>>

\* a date written as YYYY-MM-DDTHH:MM:SS.mmmZ
FormatDate(d) ==
  Padded(d.year, 4) \o <<"-">> \o Padded(d.month, 2) \o <<"-">>
    \o Padded(d.day, 2) \o <<"T">> \o Padded(d.hour, 2) \o <<":">>
    \o Padded(d.minute, 2) \o <<":">> \o Padded(d.second, 2) \o <<".">>
    \o Padded(d.microsecond \div 1000, 3) \o <<"Z">>

\* '{category}_{label}_{rule}_{sheet_id}_{timestamp}.csv'
Rebuilt(rn) ==
  rn.category \o <<"_">> \o rn.label \o <<"_">> \o rn.rule \o <<"_">>
    \o rn.sheet_id \o <<"_">> \o FormatDate(rn.date) \o DOT_CSV

\* C11: the filename rebuilt from the fields of an accepted filename is
\* accepted too, with the same category, label, rule, sheet_id and date.
C11_RoundTrip ==
  Accepted =>
    LET again == with_filename(Rebuilt(report_name))
    IN  /\ again.ok
        /\ again.category = report_name.category
        /\ again.label = report_name.label
        /\ again.rule = report_name.rule
        /\ again.sheet_id = report_name.sheet_id
        /\ again.date = report_name.date

\* an accepted name with milliseconds, underscores in its sheet id and no
\* label, which the rebuilt name differs from (its suffix is not `.csv`)
C11_Witness ==
  /\ Accepted
  /\ report_name.date.microsecond # 0
  /\ report_name.label = <<>>
  /\ \E k \in 1..Len(report_name.sheet_id) : report_name.sheet_id[k] = "_"
  /\ Rebuilt(report_name) # filename

-----------------------------------------------------------------------------
(* C12 *)

\* the load jobs that append a rule's rows
RuleJobs == {k \in 1..Len(bq_log) : bq_log[k].write_disposition = "WRITE_APPEND"}

\* C12: the rule loads of an invocation go to tables that differ from one
\* another, and none of them goes to the last_report table.
C12_DestinationsAreDistinct ==
  /\ \A k, n \in RuleJobs : k # n => bq_log[k].table_id # bq_log[n].table_id
  /\ \A k \in RuleJobs : bq_log[k].table_id # LAST_REPORT_ID

-----------------------------------------------------------------------------
(* C13 *)

Touched == {RN(k).sheet_id : k \in ValidIdx}

\* C13: the table the invocation writes to last_report is the overwrite of
\* the table loaded at the start with nothing removed: a loaded row of a
\* sheet no validly named file names is written back as it was, in its
\* place, every loaded sheet is still there, and a written row of a sheet
\* no file names is a loaded row.
C13_UntouchedRowsAreWrittenBack ==
  pc \in {"loaded", "done"} =>
    LET job == bq_log[Len(bq_log)]
        written == job.data
    IN  /\ job.table_id = LAST_REPORT_ID
        /\ job.write_disposition = "WRITE_TRUNCATE"
        /\ Len(written) >= Len(LoadedTable)
        /\ \A r \in 1..Len(LoadedTable) :
             /\ written[r].Sheet_ID = LoadedTable[r].Sheet_ID
             /\ LoadedTable[r].Sheet_ID \notin Touched => written[r] = LoadedTable[r]
        /\ \A w \in 1..Len(written) :
             written[w].Sheet_ID \notin Touched =>
               w <= Len(LoadedTable) /\ written[w] = LoadedTable[w]

\* a finished invocation on a stored table of which one sheet is named by a
\* file and changed, another is not, and a sheet that is new was added
C13_Witness ==
  /\ pc = "done"
  /\ stored_last_report # NotFound
  /\ LET written == bq_log[Len(bq_log)].data
     IN  /\ Len(written) > Len(LoadedTable)
         /\ \E r \in 1..Len(LoadedTable) :
              LoadedTable[r].Sheet_ID \in Touched /\ written[r] # LoadedTable[r]
         /\ \E r \in 1..Len(LoadedTable) : LoadedTable[r].Sheet_ID \notin Touched

====
